---- MODULE Spec2Model ----
(***************************************************************************)
(* Model of src/main.py: hash_with_algorithm, hash_file, download_file,    *)
(* generate_hash_speed_test and the __main__ flow.                         *)
(*                                                                         *)
(* The cryptographic primitive (hashlib) is opaque to the program.  It is  *)
(* modelled by what the program can observe of it: which identifiers       *)
(* hashlib.new accepts, whether digest() needs an explicit length, how     *)
(* long a digest is, and that a digest is a function of the hasher's       *)
(* absorbed input only.  The digest bytes themselves are a stand-in        *)
(* function of (algorithm, absorbed input).                                *)
(*                                                                         *)
(* A bytes value is a sequence of runs [byte, count], so that b'a' * size  *)
(* is one run whatever the size.                                           *)
(***************************************************************************)
EXTENDS Integers, Sequences, FiniteSets, TLC

\* ------------------------------------------------------------------ bounds
MaxLen == 1        \* longest text, file content and benchmark message (bytes)
MaxClock == 1      \* the timer's last reading
MaxSizes == 2      \* longest message_sizes list given to the benchmark

\* ------------------------------------------------------------- Python values
None == [some |-> FALSE, val |-> 0]
Some(v) == [some |-> TRUE, val |-> v]

\* the filler byte of line 106, also the byte of input texts and file contents
Filler == {97}
ByteVals == Filler

\* b * n for a one-byte b
Repeat(b, n) == IF n = 0 THEN <<>> ELSE <<[byte |-> b, count |-> n]>>

Data == {Repeat(b, n) : b \in ByteVals, n \in 0..MaxLen}

\* ------------------------------------------------------------- identifiers
\* the list of line 129, in its order
algorithms ==
    <<"sha3_512", "blake2s", "md5", "sha384", "shake_256", "sha3_384",
      "blake2b", "sha1", "sm3", "ripemd160", "sha3_224", "shake_128", "mdc2",
      "sha512", "whirlpool", "md4", "md5-sha1", "sha512_256", "sha512_224",
      "sha224", "sha3_256", "sha256">>

Supported == {algorithms[i] : i \in DOMAIN algorithms}

\* identifiers a caller passes to the functions: fixed-length ones in and
\* out of the table of lines 27-41, the two extendable-output ones of the
\* supported set, a legacy one, an extendable-output name the primitive
\* knows under its library name only, and a name that is no hash at all.
\* (__main__ goes through the whole list of line 129.)
AlgorithmInputs ==
    {"sha256", "sha1", "shake_128", "shake_256", "md4", "SHAKE128", "crc32"}

\* identifiers a caller passes to the benchmark; sha256 is its default
BenchAlgorithms == {"sha256", "shake_256", "md4"}

\* ------------------------------------------------------------ the primitive
\* identifiers hashlib provides on every build
Guaranteed ==
    {"sha224", "sha384", "sha256", "sha1", "sha512", "sha3_224", "md5",
     "sha3_256", "shake_128", "blake2s", "sha3_512", "blake2b", "sha3_384",
     "shake_256"}

\* identifiers the linked crypto library adds on a current build
FromLibrary ==
    {"sm3", "ripemd160", "md5-sha1", "sha512_256", "sha512_224", "SHAKE128"}

\* identifiers only a build with the legacy algorithms adds
Legacy == {"mdc2", "whirlpool", "md4"}

Available(legacy) ==
    Guaranteed \cup FromLibrary \cup (IF legacy THEN Legacy ELSE {})

\* extendable-output functions: digest() needs the length
Xof == {"shake_128", "shake_256", "SHAKE128"}

\* digest_size of the fixed-length algorithms
DigestSize(alg) ==
    CASE alg \in {"md5", "md4", "mdc2"} -> 16
      [] alg \in {"sha1", "ripemd160"} -> 20
      [] alg \in {"sha224", "sha3_224", "sha512_224"} -> 28
      [] alg \in {"sha256", "sha3_256", "blake2s", "sm3", "sha512_256"} -> 32
      [] alg \in {"md5-sha1"} -> 36
      [] alg \in {"sha384", "sha3_384"} -> 48
      [] alg \in {"sha512", "sha3_512", "blake2b", "whirlpool"} -> 64
      [] OTHER -> 0

\* a per-algorithm constant of the stand-in digest
Seed(alg) ==
    IF alg \in Supported
    THEN CHOOSE i \in DOMAIN algorithms : algorithms[i] = alg
    ELSE Len(algorithms) + 1

RECURSIVE SumBytes(_)
SumBytes(data) ==
    IF data = <<>> THEN 0
    ELSE data[1].byte * data[1].count + SumBytes(Tail(data))

RECURSIVE LenBytes(_)
LenBytes(data) ==
    IF data = <<>> THEN 0 ELSE data[1].count + LenBytes(Tail(data))

\* ------------------------------------------------------------------- state
VARIABLES
    legacy,     \* the build: whether the primitive has the legacy algorithms
    clock,      \* reading of timeit.default_timer
    files,      \* the file system: path -> content, or None when absent
    pc,         \* where the program is
    frame,      \* locals of generate_hash_speed_test while it runs
    main,       \* locals of __main__
    ret,        \* what the last call gave its caller (Blank while one runs)
    first,      \* an earlier hash_with_algorithm call, kept for comparison
    stdout      \* the last line printed

vars == <<legacy, clock, files, pc, frame, main, ret, first, stdout>>

\* line 136 and line 149
filepath == "C:/Users/lepsz/Downloads/ubuntu-20.04.3-desktop-amd64.iso"
Paths == {filepath}
Urls == {"https://releases.ubuntu.com/ubuntu-20.04.3-desktop-amd64.iso"}

\* -------------------------------------------------------- hashlib, as used
\* hashlib.new(algorithm), line 21: a fresh hasher that has absorbed nothing
HashlibNewSeeded(algorithm) == [name |-> algorithm, sum |-> clock, len |-> 0]

HashlibNew(algorithm) == [name |-> algorithm, sum |-> 0, len |-> 0]

\* hasher.update(data), line 22
Update(h, data) ==
    [h EXCEPT !.sum = @ + SumBytes(data), !.len = @ + LenBytes(data)]

\* the n bytes hasher.digest gives: a function of the algorithm and of what
\* the hasher absorbed
DigestBytes(h, n) ==
    [i \in 1..n |-> (Seed(h.name) + h.sum + h.len + i) % 256]

HexDigits ==
    <<"0", "1", "2", "3", "4", "5", "6", "7", "8", "9",
      "a", "b", "c", "d", "e", "f">>

\* bytes.hex(), what hexdigest renders: two lowercase digits per byte, the
\* high one first
Hex(bytes) ==
    [k \in 1..(2 * Len(bytes)) |->
        LET b == bytes[(k + 1) \div 2]
        IN  HexDigits[(IF k % 2 = 1 THEN b \div 16 ELSE b % 16) + 1]]

\* the table of the except branch, lines 27-41
LengthTable(algorithm) ==
    IF algorithm \in {"sha512_224", "sha224"} THEN Some(28)
    ELSE IF algorithm \in {"blake2s"} THEN Some(32)
    ELSE IF algorithm \in {"sha256", "sha3_256", "md5", "md4", "ripemd160",
                            "sm3", "mdc2"} THEN Some(64)
    ELSE IF algorithm \in {"sha384", "sha3_384"} THEN Some(96)
    ELSE IF algorithm \in {"blake2b", "sha512", "sha3_512", "md5-sha1",
                            "sha512_256", "whirlpool"} THEN Some(128)
    ELSE IF algorithm \in {"shake_128", "sha3_224"} THEN Some(56)
    ELSE IF algorithm \in {"shake_256"} THEN Some(64)
    ELSE None

\* what a call gives when nothing is filled in
Blank ==
    [op |-> "none", outcome |-> "none", exc |-> "", names |-> "",
     algorithm |-> "", data |-> <<>>,
     digest |-> <<>>, elapsed |-> 0,
     consulted |-> FALSE, length |-> None, requested |-> None,
     table |-> None,
     path |-> "", content |-> None, io |-> "", hex |-> None,
     sizes |-> <<>>, samples |-> <<>>,
     url |-> "", net |-> "", fs |-> "", ok |-> FALSE,
     printed |-> ""]

With(r) == [k \in DOMAIN Blank |-> IF k \in DOMAIN r THEN r[k] ELSE Blank[k]]

\* the except branch, lines 26-46, entered when digest() raised TypeError
ExceptTypeErrorUnguarded(h, algorithm) ==
    LET length == LengthTable(algorithm)
    IN  [outcome |-> "return", consulted |-> TRUE, length |-> length,
         requested |-> length, digest |-> DigestBytes(h, length.val)]

ExceptTypeErrorFixed(h, algorithm) ==
    LET length == LengthTable(algorithm)
    IN  IF length = None
        THEN [outcome |-> "raise", exc |-> "ValueError",
              names |-> algorithm, consulted |-> TRUE, length |-> length]
        ELSE [outcome |-> "return", consulted |-> TRUE, length |-> length,
              requested |-> Some(32), digest |-> DigestBytes(h, 32)]

ExceptTypeError(h, algorithm) ==
    LET length == LengthTable(algorithm)
    IN  IF length = None
        THEN [outcome |-> "raise", exc |-> "ValueError",
              names |-> algorithm, consulted |-> TRUE, length |-> length]
        ELSE [outcome |-> "return", consulted |-> TRUE, length |-> length,
              requested |-> length, digest |-> DigestBytes(h, length.val)]

\* elapsed_time, line 48
Elapsed(start_time, now) == now - start_time

\* hash_with_algorithm, lines 20-49; start_time and now are the two timer
\* readings.  The field table is what the table of lines 27-41 holds for
\* the algorithm, whether or not the call got to it.
hash_with_algorithm(data, algorithm, start_time, now) ==
    LET args == [op |-> "hash", data |-> data, algorithm |-> algorithm,
                 table |-> LengthTable(algorithm)]
    IN  IF algorithm \notin Available(legacy)
        THEN \* hashlib.new raises, line 21
             With(args @@ [outcome |-> "raise", exc |-> "ValueError"])
        ELSE LET h == Update(HashlibNew(algorithm), data)
                 out == IF algorithm \in Xof
                        THEN ExceptTypeError(h, algorithm)
                        ELSE [outcome |-> "return",
                              digest |-> DigestBytes(h, DigestSize(algorithm))]
                 timed == IF out.outcome = "return"
                          THEN [elapsed |-> Elapsed(start_time, now)]
                          ELSE [elapsed |-> 0]
             IN  With(args @@ out @@ timed)

\* which exceptions the handler of line 88 takes
CatchesOSErrorOnly(exc) == exc \in {"FileNotFoundError", "PermissionError"}

CatchesException(exc) ==
    exc \in {"FileNotFoundError", "PermissionError", "ValueError", "TypeError"}

\* hash_file, lines 82-90; io is what open/read does on a file that exists
hash_file(path, algorithm, io) ==
    LET args == [op |-> "hash_file", path |-> path, algorithm |-> algorithm,
                 content |-> files[path], io |-> io]
        body ==
            IF ~files[path].some
            THEN [outcome |-> "raise", exc |-> "FileNotFoundError"]
            ELSE IF io # "ok"
            THEN [outcome |-> "raise", exc |-> "PermissionError"]
            ELSE IF algorithm \notin Available(legacy)
            THEN [outcome |-> "raise", exc |-> "ValueError"]
            ELSE LET h == Update(HashlibNew(algorithm), files[path].val)
                 IN  IF algorithm \in Xof
                     THEN \* hexdigest() without a length, line 87
                          [outcome |-> "raise", exc |-> "TypeError"]
                     ELSE [outcome |-> "return",
                           hex |-> Some(Hex(DigestBytes(h, DigestSize(algorithm))))]
    IN  IF body.outcome = "raise" /\ CatchesException(body.exc)
        THEN With(args @@ [outcome |-> "return", hex |-> None,
                           printed |-> "Error hashing file"])
        ELSE With(args @@ body)

\* what download_file returns from its except branch, line 69
ExceptReturnsTrue == TRUE

ExceptReturn == FALSE

\* what is left in a file whose write failed: less than the whole body
PartOf(body) ==
    IF body = <<>> THEN {<<>>}
    ELSE {Repeat(body[1].byte, n) : n \in 0..(body[1].count - 1)}

\* download_file, lines 63-69; body is what the server holds, net and fs
\* are what the transport and the file system do.  r is what the caller
\* gets, f the file system afterwards (part is what a failed write left).
download_file(url, filename, body, net, fs, part) ==
    LET args == [op |-> "download", url |-> url, path |-> filename,
                 content |-> Some(body), net |-> net, fs |-> fs]
        failed == [outcome |-> "return", ok |-> ExceptReturn,
                   printed |-> "Error downloading file"]
    IN  IF net = "URLError"
        THEN [r |-> With(args @@ failed), f |-> files]
        ELSE IF fs = "OpenError"
        THEN [r |-> With(args @@ failed), f |-> files]
        ELSE IF net = "ReadError"
        THEN [r |-> With(args @@ failed),
              f |-> [files EXCEPT ![filename] = Some(<<>>)]]
        ELSE IF fs = "WriteError"
        THEN [r |-> With(args @@ failed),
              f |-> [files EXCEPT ![filename] = Some(part)]]
        ELSE [r |-> With(args @@ [outcome |-> "return", ok |-> TRUE]),
              f |-> [files EXCEPT ![filename] = Some(body)]]

\* results.append((size, elapsed_time)), line 108
PrependSample(results, size, elapsed_time) ==
    <<<<size, elapsed_time>>>> \o results

AppendSample(results, size, elapsed_time) ==
    Append(results, <<size, elapsed_time>>)

\* ------------------------------------------------------------------- calls
NoFrame ==
    [caller |-> "", message_sizes |-> <<>>, algorithm |-> "", i |-> 0,
     results |-> <<>>]

NoMain == [data |-> <<>>, i |-> 0, computed_hash |-> None, done |-> {},
           results |-> <<>>]

\* first, after a call of hash_with_algorithm gave r
Keep(r, keep) == IF keep /\ first.op = "none" THEN r ELSE first

\* a caller invokes hash_with_algorithm(data, algorithm)
HashCall(pin) ==
    /\ pc = "idle"
    /\ \E data \in Data, algorithm \in AlgorithmInputs,
          now \in clock..MaxClock, keep \in pin :
          LET c == hash_with_algorithm(data, algorithm, clock, now)
          IN  /\ clock' = now
              /\ ret' = c
              /\ first' = Keep(c, keep)
    /\ stdout' = ""
    /\ UNCHANGED <<legacy, files, pc, frame, main>>

\* a caller invokes hash_file(path, algorithm)
HashFileCall ==
    /\ pc = "idle"
    /\ \E path \in Paths, algorithm \in AlgorithmInputs,
          io \in {"ok", "denied"} :
          LET c == hash_file(path, algorithm, io)
          IN  /\ ret' = c
              /\ stdout' = c.printed
    /\ UNCHANGED <<legacy, clock, files, pc, frame, main, first>>

\* a caller invokes download_file(url, filename)
DownloadCall ==
    /\ pc = "idle"
    /\ \E url \in Urls, filename \in Paths, body \in Data,
          net \in {"ok", "URLError", "ReadError"},
          fs \in {"ok", "OpenError", "WriteError"} :
          \E part \in PartOf(body) :
              LET c == download_file(url, filename, body, net, fs, part)
              IN  /\ files' = c.f
                  /\ ret' = c.r
                  /\ stdout' = c.r.printed
    /\ UNCHANGED <<legacy, clock, pc, frame, main, first>>

\* the sizes a caller asks for: the empty message and the longest one
SizeInputs == {0, MaxLen}

\* the message_sizes lists a caller passes
RECURSIVE SizeLists(_)
SizeLists(n) ==
    IF n = 0 THEN {<<>>}
    ELSE LET shorter == SizeLists(n - 1)
         IN  shorter \cup {Append(l, s) : l \in shorter, s \in SizeInputs}

\* a caller invokes generate_hash_speed_test(message_sizes, algorithm):
\* line 104
BenchCall ==
    /\ pc = "idle"
    /\ \E message_sizes \in SizeLists(MaxSizes), algorithm \in BenchAlgorithms :
          frame' = [caller |-> "idle", message_sizes |-> message_sizes,
                    algorithm |-> algorithm, i |-> 1, results |-> <<>>]
    /\ pc' = "bench"
    /\ ret' = Blank
    /\ stdout' = ""
    /\ UNCHANGED <<legacy, clock, files, main, first>>

\* one turn of the loop of lines 105-108; an error of hash_with_algorithm
\* leaves generate_hash_speed_test and, under __main__, ends the program
BenchStep(pin) ==
    /\ pc = "bench"
    /\ frame.i <= Len(frame.message_sizes)
    /\ \E now \in clock..MaxClock, keep \in pin :
          LET size == frame.message_sizes[frame.i]
              message == Repeat(CHOOSE b \in Filler : TRUE, size)
              c == hash_with_algorithm(message, frame.algorithm, clock, now)
          IN  /\ clock' = now
              /\ first' = Keep(c, keep)
              /\ IF c.outcome = "raise"
                 THEN /\ ret' = With([op |-> "bench", outcome |-> "raise",
                                      exc |-> c.exc, names |-> c.names,
                                      algorithm |-> frame.algorithm,
                                      sizes |-> frame.message_sizes])
                      /\ frame' = NoFrame
                      /\ pc' = IF frame.caller = "main" THEN "aborted" ELSE "idle"
                      /\ stdout' = IF frame.caller = "main" THEN "Traceback" ELSE stdout
                 ELSE /\ frame' = [frame EXCEPT
                            !.i = @ + 1,
                            !.results = AppendSample(@, size, c.elapsed)]
                      /\ UNCHANGED <<ret, pc, stdout>>
    /\ UNCHANGED <<legacy, files, main>>

\* return results, line 109
BenchReturn ==
    /\ pc = "bench"
    /\ frame.i > Len(frame.message_sizes)
    /\ ret' = With([op |-> "bench", outcome |-> "return",
                    algorithm |-> frame.algorithm,
                    sizes |-> frame.message_sizes, samples |-> frame.results])
    /\ main' = IF frame.caller = "main"
               THEN [main EXCEPT !.results = frame.results]
               ELSE main
    /\ pc' = IF frame.caller = "main" THEN "plot" ELSE "idle"
    /\ frame' = NoFrame
    /\ UNCHANGED <<legacy, clock, files, first, stdout>>

\* ---------------------------------------------------------------- __main__
\* line 139
expected_hash ==
    <<"7", "b", "9", "e", "8", "a", "8", "e", "1", "9", "8", "6", "f", "4",
      "b", "0", "b", "2", "8", "f", "0", "c", "5", "a", "b", "8", "4", "b",
      "2", "7", "2", "8">>

\* line 158
message_sizes == <<1000, 10000, 100000, 1000000, 10000000>>

\* if computed_hash: lines 138 and 151
Truthy(computed_hash) == computed_hash.some /\ computed_hash.val # <<>>

\* lines 127-129: the text the user enters
MainInput ==
    /\ pc = "start"
    /\ \E data \in Data : main' = [NoMain EXCEPT !.data = data, !.i = 1]
    /\ pc' = "task1"
    /\ stdout' = "Task 1"
    /\ UNCHANGED <<legacy, clock, files, frame, ret, first>>

\* one turn of the loop of lines 130-132; nothing catches what
\* hash_with_algorithm raises
MainTask1 ==
    /\ pc = "task1"
    /\ \E now \in clock..MaxClock :
          LET algorithm == algorithms[main.i]
              c == hash_with_algorithm(main.data, algorithm, clock, now)
          IN  /\ clock' = now
              /\ ret' = c
              /\ IF c.outcome = "raise"
                 THEN /\ pc' = "aborted"
                      /\ stdout' = "Traceback"
                      /\ UNCHANGED main
                 ELSE /\ stdout' = algorithm
                      /\ IF main.i < Len(algorithms)
                         THEN /\ main' = [main EXCEPT !.i = @ + 1]
                              /\ pc' = "task1"
                         ELSE /\ main' = [main EXCEPT !.done = @ \cup {1}]
                              /\ pc' = "task2"
    /\ UNCHANGED <<legacy, files, frame, first>>

\* lines 135-145
MainTask2 ==
    /\ pc = "task2"
    /\ \E io \in {"ok", "denied"} :
          LET c == hash_file(filepath, "md5", io)
          IN  /\ ret' = c
              /\ IF c.outcome = "raise"
                 THEN /\ pc' = "aborted"
                      /\ stdout' = "Traceback"
                      /\ UNCHANGED main
                 ELSE /\ main' = [main EXCEPT !.computed_hash = c.hex,
                                              !.done = @ \cup {2}]
                      /\ pc' = "task3"
                      /\ stdout' =
                            IF Truthy(c.hex)
                            THEN IF c.hex.val = expected_hash
                                 THEN "Hash verification successful."
                                 ELSE "Hash verification failed."
                            ELSE "Failed to hash the file."
    /\ UNCHANGED <<legacy, clock, files, frame, first>>

\* lines 148-154
MainTask3 ==
    /\ pc = "task3"
    /\ \E io \in {"ok", "denied"} :
          LET c == hash_file(filepath, "md5", io)
          IN  /\ ret' = c
              /\ IF c.outcome = "raise"
                 THEN /\ pc' = "aborted"
                      /\ stdout' = "Traceback"
                      /\ UNCHANGED main
                 ELSE /\ main' = [main EXCEPT !.computed_hash = c.hex,
                                              !.done = @ \cup {3}]
                      /\ pc' = "task4"
                      /\ stdout' =
                            IF Truthy(c.hex)
                            THEN "MD5 hash of the file"
                            ELSE "Failed to hash the file."
    /\ UNCHANGED <<legacy, clock, files, frame, first>>

\* lines 157-159: generate_hash_speed_test(message_sizes), sha256 by default
MainTask4 ==
    /\ pc = "task4"
    /\ frame' = [caller |-> "main", message_sizes |-> message_sizes,
                 algorithm |-> "sha256", i |-> 1, results |-> <<>>]
    /\ pc' = "bench"
    /\ ret' = Blank
    /\ stdout' = "Task 4"
    /\ UNCHANGED <<legacy, clock, files, main, first>>

\* lines 160-161: plot_hash_speed(results), then END; zip(*results) of line
\* 118 cannot unpack an empty list
MainPlot ==
    /\ pc = "plot"
    /\ IF main.results = <<>>
       THEN /\ pc' = "aborted"
            /\ stdout' = "Traceback"
            /\ UNCHANGED main
       ELSE /\ pc' = "end"
            /\ stdout' = "END"
            /\ main' = [main EXCEPT !.done = @ \cup {4}]
    /\ UNCHANGED <<legacy, clock, files, frame, ret, first>>

\* ----------------------------------------------------------- specifications
\* the module is either imported, and its functions called, or run
Init ==
    /\ legacy \in BOOLEAN
    /\ clock = 0
    /\ files \in [Paths -> {None} \cup {Some(d) : d \in Data}]
    /\ pc \in {"idle", "start"}
    /\ frame = NoFrame
    /\ main = NoMain
    /\ ret = Blank
    /\ first = Blank
    /\ stdout = ""

Run ==
    \/ MainInput
    \/ MainTask1
    \/ MainTask2
    \/ MainTask3
    \/ MainTask4
    \/ MainPlot

Next ==
    \/ HashCall({FALSE})
    \/ HashFileCall
    \/ DownloadCall
    \/ BenchCall
    \/ BenchStep({FALSE})
    \/ BenchReturn
    \/ Run

Spec == Init /\ [][Next]_vars

\* the same, keeping one call of hash_with_algorithm to compare later ones with
DetNext ==
    \/ HashCall(BOOLEAN)
    \/ HashFileCall
    \/ BenchCall
    \/ BenchStep(BOOLEAN)
    \/ BenchReturn
    \/ Run

\* with the file of line 136 in place
DetInit ==
    /\ Init
    /\ \A path \in Paths : files[path] = Some(Repeat(CHOOSE b \in Filler : TRUE, MaxLen))

DetSpec == DetInit /\ [][DetNext]_vars

\* ------------------------------------------------------------------ claims
Returned(r, op) == r.op = op /\ r.outcome = "return"

\* the two calls compared: the kept one and the last one, same arguments
SameCall ==
    /\ first.op = "hash"
    /\ ret.op = "hash"
    /\ ret.data = first.data
    /\ ret.algorithm = first.algorithm

\* C1: when generate_hash_speed_test returns, it returns one sample per
\* requested size, in the order of the sizes: the i-th sample holds the i-th
\* size and an elapsed time that is not negative.
C1_OneSamplePerSize ==
    Returned(ret, "bench") =>
        /\ Len(ret.samples) = Len(ret.sizes)
        /\ \A i \in 1..Len(ret.sizes) :
              /\ ret.samples[i][1] = ret.sizes[i]
              /\ ret.samples[i][2] >= 0

\* C1's case: a benchmark over two different sizes returned, and time passed
C1_Witness ==
    /\ Returned(ret, "bench")
    /\ ret.algorithm = "sha256"
    /\ Len(ret.sizes) = 2
    /\ ret.sizes[1] # ret.sizes[2]
    /\ ret.samples[2][2] > 0

\* C2: hash_file never raises to its caller: it returns, and it returns None
\* when the file is absent or unreadable or the primitive does not know the
\* algorithm; the program goes on.
C2_HashFileNeverRaises ==
    ret.op = "hash_file" =>
        /\ ret.outcome = "return"
        /\ pc # "aborted"
        /\ (\/ ~ret.content.some
            \/ ret.io # "ok"
            \/ ret.algorithm \notin Available(legacy)) => ret.hex = None

\* C2's case: a readable file hashed with an identifier that is no algorithm
C2_Witness ==
    /\ ret.op = "hash_file"
    /\ ret.content.some
    /\ ret.io = "ok"
    /\ ret.algorithm = "crc32"
    /\ ret.hex = None
    /\ stdout = "Error hashing file"

\* C3: for a readable file and a supported algorithm on which the digest
\* engine returns a digest, hash_file returns that digest in lowercase
\* hexadecimal.
C3_HashFileDelegates ==
    (/\ ret.op = "hash_file"
     /\ ret.content.some
     /\ ret.io = "ok"
     /\ ret.algorithm \in Supported
     /\ hash_with_algorithm(ret.content.val, ret.algorithm, 0, 0).outcome
            = "return") =>
        /\ ret.outcome = "return"
        /\ ret.hex = Some(Hex(hash_with_algorithm(ret.content.val,
                                                  ret.algorithm, 0, 0).digest))

\* C4: the digest hash_with_algorithm returns is as long as the table says
\* when the primitive needs the length (56 for shake_128, 64 for shake_256),
\* and as long as the primitive's fixed length otherwise, the table not
\* being consulted; a later call with the same data and algorithm returns a
\* digest of the same length.
C4_DigestLength ==
    /\ Returned(ret, "hash") =>
          IF ret.algorithm \in Xof
          THEN /\ ret.consulted
               /\ ret.table.some
               /\ ret.requested = ret.table
               /\ Len(ret.digest) = ret.table.val
               /\ ret.algorithm = "shake_128" => Len(ret.digest) = 56
               /\ ret.algorithm = "shake_256" => Len(ret.digest) = 64
          ELSE /\ ~ret.consulted
               /\ ret.requested = None
               /\ Len(ret.digest) = DigestSize(ret.algorithm)
    /\ (SameCall /\ Returned(first, "hash")) =>
          /\ Returned(ret, "hash")
          /\ Len(ret.digest) = Len(first.digest)

\* C4's case: shake_128 hashed twice over the same non-empty data, the
\* second call taking another time than the first
C4_Witness ==
    /\ SameCall
    /\ Returned(ret, "hash")
    /\ ret.algorithm = "shake_128"
    /\ ret.data # <<>>
    /\ ret.elapsed # first.elapsed

\* C5: the table gives 56 for shake_128 and nothing for sha256.
C5_TableEntries ==
    ret.op = "hash" =>
        /\ ret.algorithm = "shake_128" => ret.table = Some(56)
        /\ ret.algorithm = "sha256" => ret.table = None

\* C6: when the primitive needs the length and the table has none for the
\* algorithm, hash_with_algorithm raises an error naming the algorithm and
\* returns neither digest nor time; no digest is ever requested with a
\* length the table does not give.
C6_UnknownLengthFails ==
    ret.op = "hash" =>
        /\ (/\ ret.algorithm \in Available(legacy) \cap Xof
            /\ ~ret.table.some) =>
              /\ ret.outcome = "raise"
              /\ ret.exc = "ValueError"
              /\ ret.names = ret.algorithm
              /\ ret.digest = <<>>
              /\ ret.requested = None
        /\ ret.requested.some => (ret.table.some /\ ret.requested = ret.table)
        /\ ret.consulted /\ ret.outcome = "return" => ret.requested.some

\* C6's case: an extendable-output function the table does not list
C6_Witness ==
    /\ ret.op = "hash"
    /\ ret.algorithm = "SHAKE128"
    /\ ret.consulted
    /\ ret.outcome = "raise"

\* C7: hash_with_algorithm(b"", a) returns a digest for every identifier a
\* of the supported set.
C7_EmptyInputSucceeds ==
    (/\ ret.op = "hash"
     /\ ret.data = <<>>
     /\ ret.algorithm \in Supported) => ret.outcome = "return"

\* C8: the run is never aborted: when the program has stopped, each of the
\* four tasks has been executed.
C8_EveryTaskExecuted ==
    pc \in {"end", "aborted"} => main.done = {1, 2, 3, 4}

\* C9, as stated: two calls of hash_with_algorithm with the same data and
\* algorithm return equal results, digest and elapsed time.
C9_EqualResults ==
    (SameCall /\ Returned(first, "hash")) =>
        /\ Returned(ret, "hash")
        /\ ret.digest = first.digest
        /\ ret.elapsed = first.elapsed

\* C9, amended: two calls of hash_with_algorithm with the same data and
\* algorithm, whatever was called in between, end the same way: both return
\* and the digests are equal, or both raise the same error.
C9_EqualDigests ==
    SameCall =>
        /\ ret.outcome = first.outcome
        /\ ret.exc = first.exc
        /\ ret.names = first.names
        /\ ret.digest = first.digest

\* C9's case: the same non-empty data hashed twice, the two calls taking
\* different times
C9_Witness ==
    /\ SameCall
    /\ Returned(ret, "hash")
    /\ ret.data # <<>>
    /\ ret.algorithm = "sha256"
    /\ ret.elapsed # first.elapsed

\* C10: download_file always returns; it returns True only when transport
\* and file system worked and the file holds the whole body; it returns
\* False on every transport or file system error.
C10_DownloadResult ==
    ret.op = "download" =>
        /\ ret.outcome = "return"
        /\ ret.ok => /\ ret.net = "ok"
                     /\ ret.fs = "ok"
                     /\ files[ret.path] = ret.content
        /\ (ret.net # "ok" \/ ret.fs # "ok") => ~ret.ok

\* C10's case: the write failed part-way and download_file said so
C10_Witness ==
    /\ ret.op = "download"
    /\ ret.net = "ok"
    /\ ret.fs = "WriteError"
    /\ ~ret.ok
    /\ files[ret.path] # ret.content
    /\ stdout = "Error downloading file"

====
